---------------------------- MODULE Spec2Model ----------------------------
(***************************************************************************)
(* A model of redis-cluster-rs (src/src/lib.rs): the slot hasher, the      *)
(* slot-map builder, the bootstrap of a cluster connection and the         *)
(* Pipeline sink that routes, retries and recovers requests.               *)
(***************************************************************************)
EXTENDS Integers, Sequences, FiniteSets, TLC

VARIABLES
    fnIn,                \* input handed to the pure function under examination
    fnOut,               \* its result, NotRun before the call
    overflow_checks,     \* build profile: TRUE panics on u16 overflow, FALSE wraps
    boot,                \* position of Client::open / Connection::new
    bootErr,             \* the error bootstrap returned, if any
    client,              \* struct Client {initial_nodes, retries}
    rx,                  \* the receiving end of the handles' mpsc channel
    dropped,             \* reply channels whose oneshot Receiver was dropped
    task,                \* the spawned forward(pipeline) task
    connections,         \* Pipeline.connections (keys of the pool)
    slots,               \* Pipeline.slots
    state,               \* Pipeline.state
    in_flight_requests,  \* Pipeline.in_flight_requests
    retries,             \* Pipeline.retries
    polling,             \* TRUE while the task is inside poll_flush
    i,                   \* poll_flush: index of the while loop
    error,               \* poll_flush: local `error`
    nextId,              \* number of messages accepted so far
    replies,             \* per reply channel: the results sent on it
    sends,               \* per request: number of send attempts made
    ev,                  \* the last poll_request outcome
    disp,                \* the last try_request dispatch
    moved,               \* slots with a MOVED reply whose refresh is not installed yet
    failures             \* number of error replies the cluster has given

fnVars   == <<fnIn, fnOut>>
bootVars == <<boot, bootErr, client>>
pipeVars == <<task, connections, slots, state, in_flight_requests, retries,
              polling, i, error>>
obsVars  == <<nextId, replies, sends, ev, disp, moved, failures>>
vars     == <<fnVars, overflow_checks, rx, dropped, bootVars, pipeVars, obsVars>>

---------------------------------------------------------------------------
(* Bounds of the model.                                                    *)
MaxKeyLen == 3
MaxRecords == 2
MaxRequests == 2
MaxFailures == 2
MaxRetry == 18

(* Program constants.                                                      *)
SLOT_SIZE == 16384
DEFAULT_RETRIES == 16

None == [some |-> FALSE]
Some(x) == [some |-> TRUE, val |-> x]
NotRun == [run |-> FALSE]

Min(a, b) == IF a < b THEN a ELSE b
Max(a, b) == IF a > b THEN a ELSE b

---------------------------------------------------------------------------
(* Bytes and the packed (RESP) form of a command.                          *)

CRLF == <<13, 10>>

RECURSIVE Digits(_)
Digits(n) == IF n < 10 THEN <<48 + n>> ELSE Digits(n \div 10) \o <<48 + (n % 10)>>

ValueData(b) == [t |-> "Data", bytes |-> b]
ValueInt(n) == [t |-> "Int", n |-> n]
ValueBulk(items) == [t |-> "Bulk", items |-> items]
ValueStatus(b) == [t |-> "Status", bytes |-> b]
ParseErr == [t |-> "ParseError"]

(* One argument on the wire: a bulk string $len CRLF bytes CRLF, or an     *)
(* integer :n CRLF.                                                        *)
EncodeArg(v) ==
    IF v.t = "Data"
    THEN <<36>> \o Digits(Len(v.bytes)) \o CRLF \o v.bytes \o CRLF
    ELSE <<58>> \o Digits(v.n) \o CRLF

RECURSIVE EncodeArgs(_)
EncodeArgs(args) ==
    IF args = <<>> THEN <<>> ELSE EncodeArg(Head(args)) \o EncodeArgs(Tail(args))

(* Cmd::get_packed_command: *N CRLF followed by the N arguments.           *)
Pack(args) == <<42>> \o Digits(Len(args)) \o CRLF \o EncodeArgs(args)

IsDigit(b) == b >= 48 /\ b <= 57

(* A decimal number starting at 1-based position p and ended by CRLF:      *)
(* [ok, n, next].                                                          *)
RECURSIVE ReadNumber(_, _, _, _)
ReadNumber(cmd, p, acc, seen) ==
    IF p > Len(cmd) THEN [ok |-> FALSE]
    ELSE IF IsDigit(cmd[p]) THEN ReadNumber(cmd, p + 1, acc * 10 + (cmd[p] - 48), TRUE)
    ELSE IF seen /\ cmd[p] = 13 /\ p + 1 <= Len(cmd) /\ cmd[p + 1] = 10
         THEN [ok |-> TRUE, n |-> acc, next |-> p + 2]
    ELSE [ok |-> FALSE]

RECURSIVE ReadLine(_, _, _)
ReadLine(cmd, p, acc) ==
    IF p + 1 > Len(cmd) THEN [ok |-> FALSE]
    ELSE IF cmd[p] = 13 /\ cmd[p + 1] = 10 THEN [ok |-> TRUE, bytes |-> acc, next |-> p + 2]
    ELSE ReadLine(cmd, p + 1, Append(acc, cmd[p]))

(* redis::parse_redis_value on the value starting at position p:           *)
(* [ok, value, next].                                                      *)
RECURSIVE ParseAt(_, _)
RECURSIVE ParseItems(_, _, _, _)
ParseItems(cmd, p, n, acc) ==
    IF n = 0 THEN [ok |-> TRUE, value |-> ValueBulk(acc), next |-> p]
    ELSE LET r == ParseAt(cmd, p)
         IN IF r.ok THEN ParseItems(cmd, r.next, n - 1, Append(acc, r.value))
            ELSE [ok |-> FALSE]

ParseAt(cmd, p) ==
    IF p > Len(cmd) THEN [ok |-> FALSE]
    ELSE IF cmd[p] = 42 THEN
        LET h == ReadNumber(cmd, p + 1, 0, FALSE)
        IN IF h.ok THEN ParseItems(cmd, h.next, h.n, <<>>) ELSE [ok |-> FALSE]
    ELSE IF cmd[p] = 36 THEN
        LET h == ReadNumber(cmd, p + 1, 0, FALSE)
        IN IF ~h.ok THEN [ok |-> FALSE]
           ELSE IF h.next + h.n + 1 <= Len(cmd)
                   /\ cmd[h.next + h.n] = 13 /\ cmd[h.next + h.n + 1] = 10
                THEN [ok |-> TRUE,
                      value |-> ValueData(SubSeq(cmd, h.next, h.next + h.n - 1)),
                      next |-> h.next + h.n + 2]
                ELSE [ok |-> FALSE]
    ELSE IF cmd[p] = 58 THEN
        LET h == ReadNumber(cmd, p + 1, 0, FALSE)
        IN IF h.ok THEN [ok |-> TRUE, value |-> ValueInt(h.n), next |-> h.next]
           ELSE [ok |-> FALSE]
    ELSE IF cmd[p] = 43 THEN
        LET h == ReadLine(cmd, p + 1, <<>>)
        IN IF h.ok THEN [ok |-> TRUE, value |-> ValueStatus(h.bytes), next |-> h.next]
           ELSE [ok |-> FALSE]
    ELSE [ok |-> FALSE]

parse_redis_value(cmd) ==
    LET r == ParseAt(cmd, 1) IN IF r.ok THEN r.value ELSE ParseErr

---------------------------------------------------------------------------
(* CRC16/XMODEM: polynomial 0x1021, initial value 0, no reflection.        *)

RECURSIVE Xor(_, _, _)
Xor(a, b, bits) ==
    IF bits = 0 THEN 0
    ELSE ((a + b) % 2) + 2 * Xor(a \div 2, b \div 2, bits - 1)

(* One bit of the shift register per step; a register value is a number in *)
(* 0..65535, which the guards below evaluate before the next step.         *)
RECURSIVE CrcShift(_, _)
CrcShift(crc, n) ==
    IF n = 0 THEN crc
    ELSE LET shifted == IF crc >= 32768
                        THEN Xor((crc * 2) % 65536, 4129, 16)
                        ELSE (crc * 2) % 65536
         IN IF shifted >= 0 THEN CrcShift(shifted, n - 1) ELSE crc

RECURSIVE CrcFrom(_, _)
CrcFrom(crc, bytes) ==
    IF bytes = <<>> THEN crc
    ELSE LET fed == CrcShift(Xor(crc, Head(bytes) * 256, 16), 8)
         IN IF fed >= 0 THEN CrcFrom(fed, Tail(bytes)) ELSE crc

XMODEM_calculate(bytes) == CrcFrom(0, bytes)

---------------------------------------------------------------------------
(* The slot hasher.                                                        *)

(* Iterator::position: 0-based index of the first element equal to b.      *)
position(s, b) ==
    IF \E k \in 1..Len(s) : s[k] = b
    THEN Some((CHOOSE k \in 1..Len(s) : s[k] = b /\ \A j \in 1..(k - 1) : s[j] # b) - 1)
    ELSE None

(* sub_key without its `close_offset != 0` test.                           *)
sub_key_no_empty_check(key) ==
    LET open == position(key, 123)
    IN IF ~open.some THEN key
       ELSE LET after_open == open.val + 1
                close == position(SubSeq(key, after_open + 1, Len(key)), 125)
            IN IF ~close.some THEN key
               ELSE SubSeq(key, after_open + 1, after_open + close.val)

(* sub_key                                                                *)
sub_key(key) ==
    LET open == position(key, 123)
    IN IF ~open.some THEN key
       ELSE LET after_open == open.val + 1
                close_offset == position(SubSeq(key, after_open + 1, Len(key)), 125)
            IN IF ~close_offset.some THEN key
               ELSE IF close_offset.val # 0
                    THEN SubSeq(key, after_open + 1, after_open + close_offset.val)
                    ELSE key

(* Vec::swap_remove(k) with k 0-based: the removed element and the rest.   *)
swap_remove(v, k) ==
    [item |-> v[k + 1],
     rest |-> [j \in 1..(Len(v) - 1) |-> IF j = k + 1 THEN v[Len(v)] ELSE v[j]]]

(* command_key taking argument 0, the command name, with `len() >= 1`.     *)
command_key_first_arg(cmd) ==
    LET value == parse_redis_value(cmd)
    IN IF value.t = "Bulk" /\ Len(value.items) >= 1
       THEN LET arg == swap_remove(value.items, 0).item
            IN IF arg.t = "Data" THEN Some(arg.bytes) ELSE None
       ELSE None

(* command_key                                                            *)
command_key(cmd) ==
    LET value == parse_redis_value(cmd)
    IN IF value.t = "Bulk"
       THEN IF Len(value.items) >= 2
            THEN LET arg == swap_remove(value.items, 1).item
                 IN IF arg.t = "Data" THEN Some(arg.bytes) ELSE None
            ELSE None
       ELSE None

slot_for_packed_command(cmd) ==
    LET k == command_key(cmd)
    IN IF k.some
       THEN Some(XMODEM_calculate(sub_key(k.val)) % SLOT_SIZE)
       ELSE None

---------------------------------------------------------------------------
(* Topology: struct Slot and the slot map built from a discovery reply.    *)

Slot(start, end, master) == [start |-> start, end |-> end, master |-> master]

(* slice::sort_by_key(|slot_data| slot_data.start): a stable sort.         *)
RECURSIVE sort_by_start(_)
sort_by_start(data) ==
    IF data = <<>> THEN <<>>
    ELSE LET done == sort_by_start(SubSeq(data, 1, Len(data) - 1))
             x == data[Len(data)]
             n == Cardinality({k \in 1..Len(done) : done[k].start <= x.start})
         IN SubSeq(done, 1, n) \o <<x>> \o SubSeq(done, n + 1, Len(done))

(* The try_fold of build_slot_map over u16: Ok(last_slot), Err, or the     *)
(* panic of `end + 1` at 65535 when overflow checks are compiled in.       *)
RECURSIVE try_fold_prev_end(_, _)
try_fold_prev_end(prev_end, data) ==
    IF data = <<>> THEN [tag |-> "Ok", val |-> prev_end]
    ELSE IF prev_end # Head(data).start
         THEN [tag |-> "Err", kind |-> "ResponseError", msg |-> "Slot refresh error."]
    ELSE IF Head(data).end + 1 > 65535 /\ overflow_checks THEN [tag |-> "Panic"]
    ELSE try_fold_prev_end((Head(data).end + 1) % 65536, Tail(data))

(* Iterator::collect into a BTreeMap<u16, String>: a later entry with the   *)
(* same key replaces an earlier one.                                       *)
RECURSIVE collect_slot_map(_)
collect_slot_map(data) ==
    IF data = <<>> THEN <<>>
    ELSE (data[Len(data)].end :> data[Len(data)].master)
             @@ collect_slot_map(SubSeq(data, 1, Len(data) - 1))

build_slot_map(slots_data) ==
    LET sorted == sort_by_start(slots_data)
        last_slot == try_fold_prev_end(0, sorted)
    IN IF last_slot.tag # "Ok" THEN last_slot
       ELSE IF last_slot.val # SLOT_SIZE
            THEN [tag |-> "Err", kind |-> "ResponseError", msg |-> "Slot refresh error."]
       ELSE [tag |-> "Ok", map |-> collect_slot_map(sorted)]

---------------------------------------------------------------------------
(* The cluster as the client sees it.                                      *)

(* Endpoint strings "redis://host:port" of the cluster's nodes.            *)
Nodes == {"n1", "n2"}

Tcp(addr) == [kind |-> "Tcp", addr |-> addr]
UnixSocket == [kind |-> "Unix", addr |-> "sock"]

SeqsUpTo(S, n) == UNION {[1..k -> S] : k \in 0..n}
Range(f) == {f[x] : x \in DOMAIN f}
Orders(S) == {o \in [1..Cardinality(S) -> S] : Range(o) = S}

InitialNodeLists == SeqsUpTo({Tcp(n) : n \in Nodes} \cup {UnixSocket}, 2)

(* The cluster answers at most MaxFailures sends with an error; the retry  *)
(* caps explored are None and those this budget can exhaust.               *)
RetryCaps == {None} \cup {Some(n) : n \in 0..(MaxFailures - 1)}

(* GET a (slot 15495), GET b (slot 3300), PING (no key).                   *)
Commands ==
    << Pack(<<ValueData(<<71, 69, 84>>), ValueData(<<97>>)>>),
       Pack(<<ValueData(<<71, 69, 84>>), ValueData(<<98>>)>>),
       Pack(<<ValueData(<<80, 73, 78, 71>>)>>) >>

(* The send function of a Message: req_packed_command tags its reply       *)
(* Single, req_packed_commands tags it Multiple.                           *)
Funcs == {"Single", "Multiple"}

(* The messages callers send: GET a through req_packed_command, PING       *)
(* through req_packed_commands.                                            *)
Messages ==
    { [cmd |-> 1, func |-> "Single"],
      [cmd |-> 3, func |-> "Multiple"] }

ErrorCodes == {"MOVED", "ASK", "TRYAGAIN", "CLUSTERDOWN", "OTHER"}

(* CLUSTER SLOTS replies the nodes may give: two well-formed topologies    *)
(* and one that lacks the upper half of the slots.                         *)
Topologies ==
    { <<Slot(0, 8191, "n1"), Slot(8192, 16383, "n2")>>,
      <<Slot(0, 16383, "n2")>>,
      <<Slot(0, 8191, "n1")>> }

Err(kind, msg) == [tag |-> "Err", kind |-> kind, msg |-> msg]

(* get_slots: a transport error or the parsed records.                     *)
GetSlotsReplies ==
    {Err("IoError", "transport")} \cup {[tag |-> "Ok", data |-> d] : d \in Topologies}

---------------------------------------------------------------------------
(* Pipeline::refresh_slots.                                                *)

(* The future refresh_slots returns: the cloned samples and the pool moved *)
(* out of the Pipeline by mem::replace.                                    *)
refresh_slots(conns) == [samples |-> conns, connections |-> conns]

(* slots_future: query the samples in order, stop after the first Ok, keep *)
(* the last result.                                                        *)
RECURSIVE take_while_fold(_, _, _)
take_while_fold(samples, reply, last) ==
    IF samples = <<>> THEN last
    ELSE LET got == reply[Head(samples)]
             result == IF got.tag = "Ok" THEN build_slot_map(got.data) ELSE got
         IN IF result.tag = "Err"
            THEN take_while_fold(Tail(samples), reply, Some(result))
            ELSE Some(result)

(* slots_future asking the first sample only.                              *)
slots_future_first_sample(samples, reply) ==
    IF samples = <<>> THEN Err("IoError", "No connections to refresh slots from")
    ELSE IF reply[Head(samples)].tag = "Ok"
    THEN build_slot_map(reply[Head(samples)].data)
    ELSE reply[Head(samples)]

slots_future(samples, reply) ==
    LET opt == take_while_fold(samples, reply, None)
    IN IF opt.some THEN opt.val
       ELSE Err("IoError", "No connections to refresh slots from")

(* The pooled connection of a master taken over without check_connection.  *)
new_connection_unchecked(addr, old, pings, reachable) ==
    IF addr \in old THEN Some("pooled")
    ELSE IF addr \in reachable THEN Some("opened")
    ELSE None

(* The body of the fold for one master: the connection removed from the    *)
(* old pool if check_connection succeeds on it, otherwise the one          *)
(* connect_and_check opens, otherwise none.                                *)
new_connection(addr, old, pings, reachable) ==
    IF addr \in old /\ addr \in pings THEN Some("pooled")
    ELSE IF addr \in reachable THEN Some("opened")
    ELSE None

(* The fold over slots.values(): a pooled connection whose PING succeeds   *)
(* is reused, otherwise connect_and_check decides.                         *)
new_connections(slot_map, old, pings, reachable) ==
    {addr \in Range(slot_map) : new_connection(addr, old, pings, reachable).some}

refresh_result(future, found, pings, reachable) ==
    IF found.tag # "Ok" THEN found
    ELSE [tag |-> "Ok", slots |-> found.map,
          connections |-> new_connections(found.map, future.connections,
                                          pings, reachable)]

(* What the refresh future may resolve to: the samples are queried in the  *)
(* HashMap's order, each node answers CLUSTER SLOTS as it likes, and each   *)
(* PING and connect succeeds or fails.                                     *)
RefreshResults(future) ==
    LET founds == {slots_future(order, reply) :
                      order \in Orders(future.samples),
                      reply \in [future.samples -> GetSlotsReplies]}
    IN UNION {{refresh_result(future, found, pings, reachable) :
                  pings \in SUBSET future.connections,
                  reachable \in SUBSET Nodes} : found \in founds}

---------------------------------------------------------------------------
(* Bootstrap: Client::open, Client::set_retries, Connection::new.          *)

(* Client::open on the endpoints given: the first UNIX socket rejects the  *)
(* list.                                                                   *)
Client_open(initial_nodes) ==
    IF \E k \in 1..Len(initial_nodes) : initial_nodes[k].kind = "Unix"
    THEN Err("InvalidClientConfig", "This library cannot use unix socket")
    ELSE [tag |-> "Ok",
          client |-> [initial_nodes |-> initial_nodes,
                      retries |-> Some(DEFAULT_RETRIES)]]

(* create_initial_connections without its `connections.len() == 0` test.   *)
create_initial_connections_allows_none(ok) ==
    [tag |-> "Ok", connections |-> ok]

(* create_initial_connections, given the endpoints whose connect_and_check *)
(* succeeded.                                                              *)
create_initial_connections(ok) ==
    IF Cardinality(ok) = 0
    THEN Err("IoError", "Failed to create initial connections")
    ELSE [tag |-> "Ok", connections |-> ok]

(* Client::open(fnIn)                                                      *)
ClientOpen ==
    /\ boot.pc = "init"
    /\ LET opened == Client_open(fnIn)
       IN IF opened.tag = "Err"
          THEN /\ boot' = [pc |-> "failed", future |-> None]
               /\ bootErr' = Some(opened.kind)
               /\ client' = client
          ELSE /\ boot' = [pc |-> "opened", future |-> None]
               /\ client' = Some(opened.client)
               /\ bootErr' = bootErr
    /\ UNCHANGED <<fnVars, overflow_checks, rx, dropped, pipeVars, obsVars>>

(* Client::set_retries                                                     *)
SetRetries ==
    /\ boot.pc = "opened"
    /\ \E r \in RetryCaps :
          client' = Some([client.val EXCEPT !.retries = r])
    /\ UNCHANGED <<fnVars, overflow_checks, rx, dropped, boot, bootErr, pipeVars, obsVars>>

(* Client::get_connection, Connection::new and Pipeline::new up to its     *)
(* first refresh_slots call: the Pipeline is built on the connections that *)
(* opened, and refresh_slots moves them into the refresh future.           *)
CreateInitialConnections ==
    /\ boot.pc = "opened"
    /\ \E ok \in SUBSET {client.val.initial_nodes[k].addr :
                            k \in 1..Len(client.val.initial_nodes)} :
          LET created == create_initial_connections(ok)
          IN IF created.tag = "Err"
             THEN /\ boot' = [pc |-> "failed", future |-> None]
                  /\ bootErr' = Some(created.kind)
                  /\ UNCHANGED <<retries, connections>>
             ELSE /\ boot' = [pc |-> "refreshing",
                              future |-> Some(refresh_slots(created.connections))]
                  /\ retries' = client.val.retries
                  /\ connections' = {}
                  /\ bootErr' = bootErr
    /\ UNCHANGED <<fnVars, overflow_checks, rx, dropped, client, task, slots, state,
                   in_flight_requests, polling, i, error, obsVars>>

(* The poll_fn of Pipeline::new and the map_ok of Connection::new: install *)
(* the first topology and spawn the task, or return the refresh error.     *)
BootRefresh ==
    /\ boot.pc = "refreshing"
    /\ \E res \in RefreshResults(boot.future.val) :
             IF res.tag = "Ok"
             THEN /\ slots' = res.slots
                  /\ connections' = res.connections
                  /\ boot' = [pc |-> "running", future |-> None]
                  /\ task' = "running"
                  /\ bootErr' = bootErr
             ELSE /\ boot' = [pc |-> "failed", future |-> None]
                  /\ bootErr' = Some(res.kind)
                  /\ UNCHANGED <<slots, connections, task>>
    /\ UNCHANGED <<fnVars, overflow_checks, rx, dropped, client, state, in_flight_requests,
                   retries, polling, i, error, obsVars>>

---------------------------------------------------------------------------
(* Requests.                                                               *)

NoFuture == [tag |-> "None"]
PollComplete == [tag |-> "PollComplete"]
Recover(future) == [tag |-> "Recover", future |-> future]

NoEv == [id |-> 0, out |-> "none", next |-> "none", info |-> None, sent |-> None]
NoDisp == [id |-> 0, slot |-> None, addr |-> "none", stale |-> FALSE]

(* slot_for_packed_command of each command callers send.                   *)
CommandSlot == [c \in 1..Len(Commands) |-> slot_for_packed_command(Commands[c])]

(* start_send giving every Request the default cap instead of             *)
(* self.retries.                                                           *)
start_send_default_cap(cmd, func, sender) ==
    [id |-> sender,
     retry |-> 0,
     max_retries |-> Some(DEFAULT_RETRIES),
     sender |-> Some(sender),
     info |-> [cmd |-> cmd,
               func |-> func,
               slot |-> CommandSlot[cmd],
               excludes |-> {}],
     future |-> NoFuture]

(* Sink::start_send: the Request pushed for message (cmd, func) whose      *)
(* reply channel is `sender`.                                              *)
start_send(cmd, func, sender) ==
    [id |-> sender,
     retry |-> 0,
     max_retries |-> retries,
     sender |-> Some(sender),
     info |-> [cmd |-> cmd,
               func |-> func,
               slot |-> CommandSlot[cmd],
               excludes |-> {}],
     future |-> NoFuture]

(* get_random_connection choosing among all keys whatever the excludes.    *)
get_random_connection_any_key(conns, excludes) == conns

(* get_random_connection: the pool entries it may return; none when the    *)
(* pool is empty, where it panics.                                         *)
get_random_connection(conns, excludes) ==
    IF excludes.some /\ Cardinality(excludes.val) < Cardinality(conns)
    THEN {key \in conns : key \notin excludes.val}
    ELSE conns

(* self.slots.range(&slot..).next()                                        *)
range_next(slot_map, slot) ==
    LET keys == {k \in DOMAIN slot_map : k >= slot}
    IN IF keys = {} THEN None
       ELSE Some(slot_map[CHOOSE k \in keys : \A j \in keys : k <= j])

slots_range_next(slot) == range_next(slots, slot)

(* get_connection taking a random pool entry whatever the slot.            *)
get_connection_random(slot) == get_random_connection(connections, None)

(* Pipeline::get_connection: the endpoints the returned future may         *)
(* resolve to; none when get_random_connection panics.                     *)
get_connection(slot) ==
    LET entry == slots_range_next(slot)
    IN IF entry.some
       THEN IF entry.val \in connections THEN {entry.val}
            ELSE IF get_random_connection(connections, None) = {} THEN {}
            ELSE {entry.val} \cup get_random_connection(connections, None)
       ELSE get_random_connection(connections, None)

(* Pipeline::try_request: the futures it may return.                       *)
try_request(info) ==
    LET targets == IF Cardinality(info.excludes) > 0 \/ ~info.slot.some
                   THEN get_random_connection(connections, Some(info.excludes))
                   ELSE get_connection(info.slot.val)
    IN {[tag |-> "Future", addr |-> a, cmd |-> info.cmd, func |-> info.func] :
           a \in targets}

(* The number of sends the cluster may answer with an error: MaxFailures,  *)
(* and under the default retry cap as many as exhaust that cap.            *)
FailureBudget ==
    IF retries = Some(DEFAULT_RETRIES) THEN DEFAULT_RETRIES + 1 ELSE MaxFailures

(* What polling a request's future may yield.  A send future resolves to   *)
(* (addr, func(conn, cmd)); a timer to ().                                 *)
Outcomes(req) ==
    IF req.future.tag = "Delay"
    THEN {[tag |-> "Pending"], [tag |-> "Ready"]}
    ELSE {[tag |-> "Pending"]}
         \cup {[tag |-> "Ready", addr |-> req.future.addr,
                result |-> [tag |-> "Ok", shape |-> req.future.func,
                            of |-> req.future.cmd]]}
         \cup {[tag |-> "Ready", addr |-> req.future.addr,
                result |-> [tag |-> "Err", code |-> c]] :
                  c \in IF failures < FailureBudget THEN ErrorCodes ELSE {}}

(* respond unwrapping the result of send: a dropped Receiver panics.       *)
respond_unwrap_send(req, msg) ==
    IF req.sender.some /\ req.sender.val \notin dropped
    THEN [request |-> [req EXCEPT !.sender = None],
          sent |-> Some([to |-> req.sender.val, msg |-> msg]),
          panic |-> FALSE]
    ELSE [request |-> req, sent |-> None, panic |-> TRUE]

(* Request::respond                                                        *)
respond(req, msg) ==
    IF req.sender.some
    THEN [request |-> [req EXCEPT !.sender = None],
          sent |-> Some([to |-> req.sender.val, msg |-> msg]),
          panic |-> FALSE]
    ELSE [request |-> req, sent |-> None, panic |-> TRUE]

(* The backoff without its clamp.                                          *)
sleep_duration_unclamped(retry) == (2 ^ retry) * 10

(* Duration::from_millis(2u64.pow(self.retry.max(7).min(16)) * 10)         *)
sleep_duration(retry) == (2 ^ Min(Max(retry, 7), 16)) * 10

PollResult(req, poll, next, err, sent, panic) ==
    [request |-> req, poll |-> poll, next |-> next, err |-> err,
     sent |-> sent, panic |-> panic]

(* The retry cap compared one attempt late.                                *)
retries_exhausted_one_late(req) ==
    req.max_retries.some /\ req.retry = req.max_retries.val + 1

(* poll_request: `Some(max_retries) if self.retry == max_retries`.         *)
retries_exhausted(req) ==
    req.max_retries.some /\ req.retry = req.max_retries.val

(* The exclusion test with `>` for `>=`.                                   *)
all_excluded_strict(excludes, connections_len) ==
    Cardinality(excludes) > connections_len

(* poll_request: `self.info.excludes.len() >= connections_len`.            *)
all_excluded(excludes, connections_len) ==
    Cardinality(excludes) >= connections_len

(* A failure that is not counted.                                          *)
retry_not_counted(retry) == retry

(* self.retry.saturating_add(1): retry stays far below u32::MAX here.      *)
retry_saturating_add(retry) == retry + 1

(* poll_request looking at the error code before the retry cap: only an   *)
(* error that asks for neither a refresh nor a delay is held to the cap.   *)
poll_request_classify_first(req, out, connections_len) ==
    IF req.future.tag = "Delay"
    THEN IF out.tag = "Pending"
         THEN PollResult(req, "Pending", "-", "-", None, FALSE)
         ELSE PollResult(req, "Ready", "TryNewConnection", "-", None, FALSE)
    ELSE IF req.future.tag = "None"
    THEN PollResult(req, "Pending", "-", "-", None, TRUE)
    ELSE IF out.tag = "Pending"
    THEN PollResult(req, "Pending", "-", "-", None, FALSE)
    ELSE IF out.result.tag = "Ok"
    THEN LET r == respond(req, out.result)
         IN PollResult(r.request, "Ready", "Done", "-", r.sent, r.panic)
    ELSE LET code == out.result.code
             counted == [req EXCEPT !.retry = retry_saturating_add(req.retry)]
         IN IF code = "MOVED" \/ code = "ASK"
            THEN PollResult([counted EXCEPT !.info.excludes = {}],
                            "Ready", "Err", code, None, FALSE)
            ELSE IF code = "TRYAGAIN" \/ code = "CLUSTERDOWN"
            THEN PollResult([counted EXCEPT
                                !.info.excludes = {},
                                !.future = [tag |-> "Delay",
                                            ms |-> sleep_duration(counted.retry)]],
                            "Pending", "-", "-", None, FALSE)
            ELSE LET r == respond(req, out.result)
                 IN PollResult(r.request, "Ready", "Done", "-", r.sent, r.panic)

(* Request::poll_request                                                   *)
(* poll_request answering TRYAGAIN and CLUSTERDOWN as it answers MOVED:    *)
(* with Err, which makes poll_flush refresh the slots.                     *)
poll_request_backoff_refreshes(req, out, connections_len) ==
    IF req.future.tag = "Delay"
    THEN IF out.tag = "Pending"
         THEN PollResult(req, "Pending", "-", "-", None, FALSE)
         ELSE PollResult(req, "Ready", "TryNewConnection", "-", None, FALSE)
    ELSE IF req.future.tag = "None"
    THEN PollResult(req, "Pending", "-", "-", None, TRUE)
    ELSE IF out.tag = "Pending"
    THEN PollResult(req, "Pending", "-", "-", None, FALSE)
    ELSE IF out.result.tag = "Ok"
    THEN LET r == respond(req, out.result)
         IN PollResult(r.request, "Ready", "Done", "-", r.sent, r.panic)
    ELSE IF retries_exhausted(req)
    THEN LET r == respond(req, out.result)
         IN PollResult(r.request, "Ready", "Done", "-", r.sent, r.panic)
    ELSE LET code == out.result.code
             counted == [req EXCEPT !.retry = retry_saturating_add(req.retry)]
         IN IF code = "MOVED" \/ code = "ASK"
            THEN PollResult([counted EXCEPT !.info.excludes = {}],
                            "Ready", "Err", code, None, FALSE)
            ELSE IF code = "TRYAGAIN" \/ code = "CLUSTERDOWN"
            THEN PollResult([counted EXCEPT !.info.excludes = {}],
                            "Ready", "Err", code, None, FALSE)
            ELSE LET excluded == [counted EXCEPT
                                     !.info.excludes = @ \cup {out.addr}]
                 IN IF all_excluded(excluded.info.excludes, connections_len)
                    THEN LET r == respond(excluded, out.result)
                         IN PollResult(r.request, "Ready", "Done", "-",
                                       r.sent, r.panic)
                    ELSE PollResult(excluded, "Ready", "TryNewConnection", "-",
                                    None, FALSE)

(* Request::poll_request                                                   *)
poll_request(req, out, connections_len) ==
    IF req.future.tag = "Delay"
    THEN IF out.tag = "Pending"
         THEN PollResult(req, "Pending", "-", "-", None, FALSE)
         ELSE PollResult(req, "Ready", "TryNewConnection", "-", None, FALSE)
    ELSE IF req.future.tag = "None"
    THEN PollResult(req, "Pending", "-", "-", None, TRUE)
    ELSE IF out.tag = "Pending"
    THEN PollResult(req, "Pending", "-", "-", None, FALSE)
    ELSE IF out.result.tag = "Ok"
    THEN LET r == respond(req, out.result)
         IN PollResult(r.request, "Ready", "Done", "-", r.sent, r.panic)
    ELSE IF retries_exhausted(req)
    THEN LET r == respond(req, out.result)
         IN PollResult(r.request, "Ready", "Done", "-", r.sent, r.panic)
    ELSE LET code == out.result.code
             counted == [req EXCEPT !.retry = retry_saturating_add(req.retry)]
         IN IF code = "MOVED" \/ code = "ASK"
            THEN PollResult([counted EXCEPT !.info.excludes = {}],
                            "Ready", "Err", code, None, FALSE)
            ELSE IF code = "TRYAGAIN" \/ code = "CLUSTERDOWN"
            THEN PollResult([counted EXCEPT
                                !.info.excludes = {},
                                !.future = [tag |-> "Delay",
                                            ms |-> sleep_duration(counted.retry)]],
                            "Pending", "-", "-", None, FALSE)
            ELSE LET excluded == [counted EXCEPT
                                     !.info.excludes = @ \cup {out.addr}]
                 IN IF all_excluded(excluded.info.excludes, connections_len)
                    THEN LET r == respond(excluded, out.result)
                         IN PollResult(r.request, "Ready", "Done", "-",
                                       r.sent, r.panic)
                    ELSE PollResult(excluded, "Ready", "TryNewConnection", "-",
                                    None, FALSE)

---------------------------------------------------------------------------
(* impl Sink<Message> for Pipeline.                                        *)

(* The three Ready arms of the match in poll_flush, on the vector in which *)
(* request k (0-based) has just been polled.                               *)

(* Next::Done without the swap_remove.                                     *)
poll_flush_done_keeps_request(requests, k) == requests

(* Next::Done                                                              *)
poll_flush_done(requests, k) == swap_remove(requests, k).rest

(* Next::TryNewConnection giving the new future to the last request of the *)
(* vector instead of the one removed and pushed.                           *)
poll_flush_try_new_connection_on_last(requests, k, future) ==
    [requests EXCEPT ![Len(requests)].future = future]

(* Next::TryNewConnection                                                  *)
poll_flush_try_new_connection(requests, k, future) ==
    LET request == swap_remove(requests, k).item
    IN Append(swap_remove(requests, k).rest, [request EXCEPT !.future = future])

(* Err(err)                                                                *)
poll_flush_err(requests, k) == [requests EXCEPT ![k + 1].future = NoFuture]

(* oneshot::Sender::send: the channel records which kind of result came;  *)
(* with the Receiver dropped send returns Err, which respond discards.     *)
Deliver(sent) ==
    IF sent.some /\ sent.val.to \notin dropped
    THEN [replies EXCEPT ![sent.val.to] = Append(@, sent.val.msg.tag)]
    ELSE replies

Event(req, seen, p, next) ==
    [id |-> req.id, out |-> seen, next |-> next,
     info |-> Some([cmd |-> req.info.cmd, func |-> req.info.func]),
     sent |-> p.sent]

Dispatched(req, future) ==
    [id |-> req.id, slot |-> req.info.slot, addr |-> future.addr,
     stale |-> req.info.slot.some /\ req.info.slot.val \in moved]

(* A panic unwinds the task: the Pipeline and its requests are dropped.    *)
Panicked(msg) ==
    /\ task' = msg
    /\ polling' = FALSE
    /\ in_flight_requests' = <<>>
    /\ i' = 0
    /\ error' = None
    /\ UNCHANGED <<connections, slots, state, retries>>

(* ev and disp observe one call of poll_flush: they are cleared when it    *)
(* returns.                                                                *)
Returned ==
    /\ polling' = FALSE
    /\ ev' = NoEv
    /\ disp' = NoDisp

(* The forward combinator takes a message off the channel and hands it to  *)
(* start_send.                                                             *)
StartSend ==
    /\ task = "running"
    /\ rx = "open"
    /\ ~polling
    /\ nextId < MaxRequests
    /\ \E msg \in Messages :
          in_flight_requests' =
              Append(in_flight_requests, start_send(msg.cmd, msg.func, nextId + 1))
    /\ nextId' = nextId + 1
    /\ UNCHANGED <<fnVars, overflow_checks, rx, dropped, bootVars, task, connections, slots,
                   state, retries, polling, i, error, replies, sends, ev, disp,
                   moved, failures>>

(* Every clone of the Connection is dropped and the channel is drained:    *)
(* the stream the forward combinator polls ends.                           *)
CloseChannel ==
    /\ task = "running"
    /\ rx = "open"
    /\ ~polling
    /\ rx' = "ended"
    /\ UNCHANGED <<fnVars, overflow_checks, dropped, bootVars, pipeVars, obsVars>>

(* The forward combinator calls poll_flush, or poll_close once the stream  *)
(* has ended.                                                              *)
EnterPollFlush ==
    /\ task = "running"
    /\ ~polling
    /\ polling' = TRUE
    /\ i' = 0
    /\ error' = None
    /\ UNCHANGED <<fnVars, overflow_checks, rx, dropped, bootVars, task, connections, slots,
                   state, in_flight_requests, retries, obsVars>>

(* The while loop over the requests entered in every state.                *)
matches_PollComplete_always(st) == TRUE

(* poll_flush: the arm `ConnectionState::PollComplete =>` of the match on  *)
(* the state, which holds the while loop over the requests.                *)
matches_PollComplete(st) == st.tag = "PollComplete"

(* poll_flush, PollComplete arm, the head of the while body: a request     *)
(* whose future is None is handed to try_request.                          *)
Dispatch ==
    /\ task = "running"
    /\ polling
    /\ matches_PollComplete(state)
    /\ i < Len(in_flight_requests)
    /\ in_flight_requests[i + 1].future.tag = "None"
    /\ LET req == in_flight_requests[i + 1]
       IN IF try_request(req.info) = {}
          THEN /\ Panicked("panic: No targets to choose from")
               /\ UNCHANGED <<sends, disp>>
          ELSE /\ \E future \in try_request(req.info) :
                     /\ in_flight_requests' =
                            [in_flight_requests EXCEPT ![i + 1].future = future]
                     /\ disp' = Dispatched(req, future)
               /\ sends' = [sends EXCEPT ![req.id] = @ + 1]
               /\ UNCHANGED <<task, connections, slots, state, retries, polling,
                              i, error>>
    /\ UNCHANGED <<fnVars, overflow_checks, rx, dropped, bootVars, nextId, replies, ev, moved,
                   failures>>

(* poll_flush, PollComplete arm, the rest of the while body: poll_request  *)
(* and the match on its result.                                            *)
Poll ==
    /\ task = "running"
    /\ polling
    /\ matches_PollComplete(state)
    /\ i < Len(in_flight_requests)
    /\ in_flight_requests[i + 1].future.tag # "None"
    /\ \E out \in Outcomes(in_flight_requests[i + 1]) :
          LET req == in_flight_requests[i + 1]
              p == poll_request(req, out, Cardinality(connections))
              polled == [in_flight_requests EXCEPT ![i + 1] = p.request]
              failed == out.tag = "Ready" /\ req.future.tag = "Future"
                        /\ out.result.tag = "Err"
              seen == IF out.tag = "Pending" THEN "Pending"
                      ELSE IF req.future.tag = "Delay" THEN "Fired"
                      ELSE IF out.result.tag = "Ok" THEN "Ok"
                      ELSE out.result.code
          IN /\ failures' = failures + (IF failed THEN 1 ELSE 0)
             /\ IF p.panic
                THEN /\ Panicked("panic: Result should only be sent once")
                     /\ UNCHANGED <<replies, sends, ev, disp, moved>>
                ELSE IF p.poll = "Pending"
                THEN /\ in_flight_requests' = polled
                     /\ i' = i + 1
                     /\ ev' = Event(req, seen, p,
                                     IF p.request.future.tag = "Delay"
                                        /\ req.future.tag # "Delay"
                                     THEN "Delay" ELSE "Pending")
                     /\ UNCHANGED <<task, connections, slots, state, retries,
                                    polling, error, replies, sends, disp, moved>>
                ELSE IF p.next = "Done"
                THEN /\ in_flight_requests' = poll_flush_done(polled, i)
                     /\ replies' = Deliver(p.sent)
                     /\ ev' = Event(req, seen, p, "Done")
                     /\ UNCHANGED <<task, connections, slots, state, retries,
                                    polling, i, error, sends, disp, moved>>
                ELSE IF p.next = "TryNewConnection"
                THEN IF try_request(p.request.info) = {}
                     THEN /\ Panicked("panic: No targets to choose from")
                          /\ UNCHANGED <<replies, sends, ev, disp, moved>>
                     ELSE /\ \E future \in try_request(p.request.info) :
                                /\ in_flight_requests' =
                                       poll_flush_try_new_connection(polled, i, future)
                                /\ disp' = Dispatched(p.request, future)
                          /\ sends' = [sends EXCEPT ![req.id] = @ + 1]
                          /\ ev' = Event(req, seen, p, "TryNewConnection")
                          /\ UNCHANGED <<task, connections, slots, state, retries,
                                         polling, i, error, replies, moved>>
                ELSE /\ error' = Some(p.err)
                     /\ in_flight_requests' = poll_flush_err(polled, i)
                     /\ i' = i + 1
                     /\ ev' = Event(req, seen, p, "Err")
                     /\ moved' = IF p.err = "MOVED" /\ req.info.slot.some
                                 THEN moved \cup {req.info.slot.val} ELSE moved
                     /\ UNCHANGED <<task, connections, slots, state, retries,
                                    polling, replies, sends, disp>>
    /\ UNCHANGED <<fnVars, overflow_checks, rx, dropped, bootVars, nextId>>

(* The forward combinator after poll_flush returned `flushed`: once the    *)
(* stream has ended the call was poll_close, and Ready ends the task.      *)
forward_after_flush(stream, flushed) ==
    IF stream = "ended" /\ flushed = "Ready" THEN "exited" ELSE "running"

(* poll_flush, PollComplete arm, after the while loop: start a refresh if  *)
(* a request asked for one, else return (Ready when nothing is in flight,  *)
(* Pending otherwise).                                                     *)
EndPass ==
    /\ task = "running"
    /\ polling
    /\ state.tag = "PollComplete"
    /\ i >= Len(in_flight_requests)
    /\ IF error.some
       THEN /\ state' = Recover(refresh_slots(connections))
            /\ connections' = {}
            /\ UNCHANGED <<task, polling, ev, disp>>
       ELSE /\ Returned
            /\ task' = forward_after_flush(
                           rx, IF in_flight_requests = <<>> THEN "Ready"
                               ELSE "Pending")
            /\ UNCHANGED <<state, connections>>
    /\ i' = 0
    /\ error' = None
    /\ UNCHANGED <<fnVars, overflow_checks, rx, dropped, bootVars, slots,
                   in_flight_requests, retries, nextId, replies, sends, moved,
                   failures>>

(* The Ready(Ok) arm installing the new pool under the old slot map.       *)
poll_flush_recover_ok_keeps_slots(res) ==
    [slots |-> slots, connections |-> res.connections]

(* poll_flush, Recover arm, Ready(Ok((slots, connections))): what becomes   *)
(* self.slots and self.connections.                                        *)
poll_flush_recover_ok(res) ==
    [slots |-> res.slots, connections |-> res.connections]

(* The Ready(Err) arm going back to PollComplete instead of refreshing     *)
(* again.                                                                  *)
poll_flush_recover_err_gives_up(conns) == PollComplete

(* poll_flush, Recover arm, Ready(Err(_)): the state it leaves.            *)
poll_flush_recover_err(conns) == Recover(refresh_slots(conns))

(* poll_flush, Recover arm, the refresh future is Ready: install the new   *)
(* topology and go on with PollComplete, or start another refresh.         *)
RecoverReady ==
    /\ task = "running"
    /\ polling
    /\ state.tag = "Recover"
    /\ \E res \in RefreshResults(state.future) :
             IF res.tag = "Ok"
             THEN /\ slots' = poll_flush_recover_ok(res).slots
                  /\ connections' = poll_flush_recover_ok(res).connections
                  /\ state' = PollComplete
                  /\ moved' = {}
             ELSE /\ state' = poll_flush_recover_err(connections)
                  /\ connections' = {}
                  /\ UNCHANGED <<slots, moved>>
    /\ i' = 0
    /\ error' = None
    /\ UNCHANGED <<fnVars, overflow_checks, rx, dropped, bootVars, task, in_flight_requests,
                   retries, polling, nextId, replies, sends, ev, disp, failures>>

(* poll_flush, Recover arm, the refresh future is Pending: it waits for a  *)
(* node, so it has a sample to query.                                      *)
RecoverPending ==
    /\ task = "running"
    /\ polling
    /\ state.tag = "Recover"
    /\ state.future.samples # {}
    /\ Returned
    /\ UNCHANGED <<fnVars, overflow_checks, rx, dropped, bootVars, task, connections, slots,
                   state, in_flight_requests, retries, i, error, nextId,
                   replies, sends, moved, failures>>

---------------------------------------------------------------------------
(* No function call is under examination.                                  *)
NoCall ==
    /\ fnIn = <<>>
    /\ fnOut = NotRun
    /\ overflow_checks = FALSE

(* A Pipeline that has accepted nothing yet.                               *)
Fresh ==
    /\ bootErr = None
    /\ rx = "open"
    /\ dropped = {}
    /\ state = PollComplete
    /\ in_flight_requests = <<>>
    /\ polling = FALSE
    /\ i = 0
    /\ error = None
    /\ nextId = 0
    /\ replies = [id \in 1..MaxRequests |-> <<>>]
    /\ sends = [id \in 1..MaxRequests |-> 0]
    /\ ev = NoEv
    /\ disp = NoDisp
    /\ moved = {}
    /\ failures = 0

(* Nothing is built: no Client, no Pipeline, no task.                      *)
Unbuilt ==
    /\ Fresh
    /\ boot = [pc |-> "init", future |-> None]
    /\ client = None
    /\ task = "none"
    /\ connections = {}
    /\ slots = <<>>
    /\ retries = None

(* Bootstrap, from Client::open(fnIn) to the spawn of the pipeline task.   *)
InitBoot ==
    /\ Unbuilt
    /\ fnIn \in InitialNodeLists
    /\ fnOut = NotRun
    /\ overflow_checks = FALSE

NextBoot ==
    \/ ClientOpen
    \/ SetRetries
    \/ CreateInitialConnections
    \/ BootRefresh

SpecBoot == InitBoot /\ [][NextBoot]_vars

(* impl Clone for Client: Client::open(self.initial_nodes.clone()).unwrap() *)
Client_clone(self) ==
    LET opened == Client_open(self.initial_nodes)
    IN IF opened.tag = "Ok" THEN opened.client ELSE [panic |-> opened.kind]

(* The caller clones its Client and goes on with the clone; fnOut keeps    *)
(* the original.                                                           *)
CloneClient ==
    /\ boot.pc = "opened"
    /\ fnOut = NotRun
    /\ fnOut' = [run |-> TRUE, val |-> client.val]
    /\ client' = Some(Client_clone(client.val))
    /\ UNCHANGED <<fnIn, overflow_checks, rx, dropped, boot, bootErr, pipeVars,
                   obsVars>>

NextClone ==
    \/ NextBoot
    \/ CloneClient

(* The bootstrap in which the Client may be cloned before it connects.     *)
SpecClone == InitBoot /\ [][NextClone]_vars

(* The pipeline task as Connection::new spawns it: the retry cap of the    *)
(* Client, and the slot map and pool of a first refresh that succeeded on  *)
(* the initial connections.                                                *)
Init ==
    /\ NoCall
    /\ Fresh
    /\ boot = [pc |-> "running", future |-> None]
    /\ client = None
    /\ task = "running"
    /\ retries \in RetryCaps
    /\ \E initial \in (SUBSET Nodes) \ {{}} :
          \E res \in RefreshResults(refresh_slots(initial)) :
             /\ res.tag = "Ok"
             /\ slots = res.slots
             /\ connections = res.connections

Next ==
    \/ StartSend
    \/ EnterPollFlush
    \/ Dispatch
    \/ Poll
    \/ EndPass
    \/ RecoverReady
    \/ RecoverPending

Spec == Init /\ [][Next]_vars

(* A Client opened on two TCP endpoints, configured, connected and used:   *)
(* the bootstrap followed by the pipeline it spawns.                       *)
InitClient ==
    /\ InitBoot
    /\ fnIn = <<Tcp("n1"), Tcp("n2")>>

NextClient ==
    \/ NextBoot
    \/ Next

SpecClient == InitClient /\ [][NextClient]_vars

---------------------------------------------------------------------------
(* slot_for_packed_command on its own.                                     *)

Bytes_GET == <<71, 69, 84>>
Bytes_EXISTS == <<69, 88, 73, 83, 84, 83>>
Bytes_NX == <<78, 88>>

(* Keys over 'a', '{' and '}'.                                             *)
Keys == SeqsUpTo({97, 123, 125}, MaxKeyLen)

(* Argument lists: too short, a second argument that is an integer, and    *)
(* every key under two command names, alone or followed by more arguments. *)
ArgLists ==
    { <<>>,
      <<ValueData(Bytes_GET)>>,
      <<ValueData(Bytes_GET), ValueInt(7)>>,
      <<ValueData(Bytes_GET), ValueInt(7), ValueData(<<97>>)>> }
    \cup { <<ValueData(name), ValueData(key)>> \o rest :
              name \in {Bytes_GET, Bytes_EXISTS},
              key \in Keys,
              rest \in {<<>>, <<ValueData(Bytes_NX), ValueInt(7)>>} }

(* The packed commands of tests::slot and the slots they assert.           *)
SlotTests ==
    { [cmd |-> <<42, 50, 13, 10, 36, 54, 13, 10, 69, 88, 73, 83, 84, 83, 13, 10,
                 36, 49, 54, 13, 10, 244, 93, 23, 40, 126, 127, 253, 33, 89, 47,
                 185, 204, 171, 249, 96, 139, 13, 10>>,
       args |-> None, slot |-> 964],
      [cmd |-> <<42, 54, 13, 10, 36, 51, 13, 10, 83, 69, 84, 13, 10, 36, 49, 54,
                 13, 10, 36, 241, 197, 111, 180, 254, 5, 175, 143, 146, 171, 39,
                 172, 23, 164, 145, 13, 10, 36, 52, 13, 10, 116, 114, 117, 101,
                 13, 10, 36, 50, 13, 10, 78, 88, 13, 10, 36, 50, 13, 10, 80, 88,
                 13, 10, 36, 55, 13, 10, 49, 56, 48, 48, 48, 48, 48, 13, 10>>,
       args |-> None, slot |-> 8352],
      [cmd |-> <<42, 54, 13, 10, 36, 51, 13, 10, 83, 69, 84, 13, 10, 36, 49, 54,
                 13, 10, 169, 233, 247, 59, 50, 247, 100, 232, 123, 140, 2, 101,
                 125, 221, 66, 170, 13, 10, 36, 52, 13, 10, 116, 114, 117, 101,
                 13, 10, 36, 50, 13, 10, 78, 88, 13, 10, 36, 50, 13, 10, 80, 88,
                 13, 10, 36, 55, 13, 10, 49, 56, 48, 48, 48, 48, 48, 13, 10>>,
       args |-> None, slot |-> 5210] }

HashInputs ==
    {[cmd |-> Pack(args), args |-> Some(args), slot |-> 0] : args \in ArgLists}
    \cup SlotTests

SlotForPackedCommand ==
    /\ fnOut = NotRun
    /\ fnOut' = [run |-> TRUE, val |-> slot_for_packed_command(fnIn.cmd)]
    /\ UNCHANGED <<fnIn, overflow_checks, rx, dropped, bootVars, pipeVars, obsVars>>

InitHash ==
    /\ Unbuilt
    /\ fnIn \in HashInputs
    /\ fnOut = NotRun
    /\ overflow_checks = FALSE

NextHash == SlotForPackedCommand

SpecHash == InitHash /\ [][NextHash]_vars

---------------------------------------------------------------------------
(* build_slot_map on its own.                                              *)

(* Records a CLUSTER SLOTS reply may hold: get_slots casts start and end   *)
(* to u16, so every value up to 65535 can arrive.                          *)
SlotRecords ==
    {Slot(start, end, master) :
        start \in {0, 8192, 8193}, end \in {8191, 16383, 65535}, master \in Nodes}

SlotsInputs == SeqsUpTo(SlotRecords, MaxRecords)

BuildSlotMap ==
    /\ fnOut = NotRun
    /\ fnOut' = [run |-> TRUE, val |-> build_slot_map(fnIn)]
    /\ UNCHANGED <<fnIn, overflow_checks, rx, dropped, bootVars, pipeVars, obsVars>>

InitSlots ==
    /\ Unbuilt
    /\ fnIn \in SlotsInputs
    /\ fnOut = NotRun
    /\ overflow_checks \in BOOLEAN

NextSlots == BuildSlotMap

SpecSlots == InitSlots /\ [][NextSlots]_vars

---------------------------------------------------------------------------
(* get_random_connection on its own.                                       *)

(* Endpoint strings a pool or an exclude set may hold: the cluster's nodes *)
(* and one more address.                                                   *)
Endpoints == Nodes \cup {"n3"}

(* A HashMap of connections, by its keys, and an Option<&HashSet<String>>. *)
RandomInputs ==
    [connections : SUBSET Endpoints,
     excludes : {None} \cup {Some(e) : e \in SUBSET Endpoints}]

GetRandomConnection ==
    /\ fnOut = NotRun
    /\ LET samples == get_random_connection(fnIn.connections, fnIn.excludes)
       IN IF samples = {}
          THEN fnOut' = [run |-> TRUE, val |-> [tag |-> "Panic"]]
          ELSE \E addr \in samples :
                   fnOut' = [run |-> TRUE, val |-> [tag |-> "Ok", addr |-> addr]]
    /\ UNCHANGED <<fnIn, overflow_checks, rx, dropped, bootVars, pipeVars, obsVars>>

InitRandom ==
    /\ Unbuilt
    /\ fnIn \in RandomInputs
    /\ fnOut = NotRun
    /\ overflow_checks = FALSE

NextRandom == GetRandomConnection

SpecRandom == InitRandom /\ [][NextRandom]_vars

---------------------------------------------------------------------------
(* The slots_future of refresh_slots on its own.                           *)

(* The snapshot of the pool in the order the HashMap yields it, and what   *)
(* each sampled connection answers to CLUSTER SLOTS.                       *)
SamplesInputs ==
    UNION {[samples : Orders(pool), reply : [pool -> GetSlotsReplies]] :
              pool \in SUBSET Endpoints}

SlotsFuture ==
    /\ fnOut = NotRun
    /\ fnOut' = [run |-> TRUE, val |-> slots_future(fnIn.samples, fnIn.reply)]
    /\ UNCHANGED <<fnIn, overflow_checks, rx, dropped, bootVars, pipeVars, obsVars>>

InitSamples ==
    /\ Unbuilt
    /\ fnIn \in SamplesInputs
    /\ fnOut = NotRun
    /\ overflow_checks = FALSE

NextSamples == SlotsFuture

SpecSamples == InitSamples /\ [][NextSamples]_vars

---------------------------------------------------------------------------
(* The pool a refresh builds, on its own.                                  *)

(* The slot maps build_slot_map makes of the topologies.                   *)
SlotMaps ==
    {build_slot_map(d).map : d \in {t \in Topologies : build_slot_map(t).tag = "Ok"}}

(* A new slot map, the pool moved into the refresh, the pooled connections *)
(* that answer PING, and the endpoints connect_and_check can open.         *)
PoolInputs ==
    UNION {[slot_map : SlotMaps, old : {old}, pings : SUBSET old,
            reachable : SUBSET Endpoints] : old \in SUBSET Endpoints}

NewConnections ==
    /\ fnOut = NotRun
    /\ fnOut' =
          [run |-> TRUE,
           val |-> [addr \in new_connections(fnIn.slot_map, fnIn.old,
                                             fnIn.pings, fnIn.reachable) |->
                       new_connection(addr, fnIn.old, fnIn.pings,
                                      fnIn.reachable).val]]
    /\ UNCHANGED <<fnIn, overflow_checks, rx, dropped, bootVars, pipeVars, obsVars>>

InitPool ==
    /\ Unbuilt
    /\ fnIn \in PoolInputs
    /\ fnOut = NotRun
    /\ overflow_checks = FALSE

NextPool == NewConnections

SpecPool == InitPool /\ [][NextPool]_vars

---------------------------------------------------------------------------
(* impl ConnectionLike for Connection: the two calls of a handle on their  *)
(* own.                                                                    *)

(* RedisError::from(io::Error)                                             *)
IoError(io, msg) == [tag |-> "Err", kind |-> "IoError", io |-> io, msg |-> msg]

(* oneshot::Canceled: the Sender was dropped without a send.               *)
Canceled == [tag |-> "Canceled"]

Unreachable == [tag |-> "Panic", msg |-> "internal error: entered unreachable code"]

(* What the Pipeline may put on a reply channel.                           *)
Responses ==
    {[tag |-> "Ok", shape |-> f, of |-> c] : f \in Funcs, c \in 1..Len(Commands)}
    \cup {[tag |-> "Err", code |-> c] : c \in ErrorCodes}

(* req_packed_command with `result.unwrap()` for its unwrap_or_else.       *)
req_packed_command_unwrap(sent, received) ==
    IF ~sent
    THEN IoError("BrokenPipe", "redis_cluster: Unable to send command")
    ELSE IF received = Canceled
    THEN [tag |-> "Panic", msg |-> "called Result::unwrap on an Err value"]
    ELSE IF received.tag = "Ok"
    THEN IF received.shape = "Single"
         THEN [tag |-> "Ok", value |-> received.of]
         ELSE Unreachable
    ELSE received

(* Connection::req_packed_command: what the call returns, given whether    *)
(* the channel took the Message and what the oneshot Receiver resolved to. *)
req_packed_command(sent, received) ==
    IF ~sent
    THEN IoError("BrokenPipe", "redis_cluster: Unable to send command")
    ELSE LET result == IF received = Canceled
                       THEN IoError("BrokenPipe",
                                    "redis_cluster: Unable to receive command")
                       ELSE received
         IN IF result.tag = "Ok"
            THEN IF result.shape = "Single"
                 THEN [tag |-> "Ok", value |-> result.of]
                 ELSE Unreachable
            ELSE result

(* Connection::req_packed_commands                                         *)
req_packed_commands(sent, received) ==
    IF ~sent
    THEN IoError("BrokenPipe", "")
    ELSE LET result == IF received = Canceled
                       THEN IoError("BrokenPipe", "")
                       ELSE received
         IN IF result.tag = "Ok"
            THEN IF result.shape = "Multiple"
                 THEN [tag |-> "Ok", value |-> result.of]
                 ELSE Unreachable
            ELSE result

(* The states of the task a handle can meet: alive, ended, or dead of one  *)
(* of the panics of the Pipeline.                                          *)
TaskStates ==
    {"running", "exited", "panic: No targets to choose from",
     "panic: Result should only be sent once"}

(* A call through the handle: the send fails when the task, and with it    *)
(* the Receiver of the channel, is gone.                                   *)
HandleInputs ==
    {[func |-> f, cmd |-> c, received |-> r] :
        f \in Funcs, c \in 1..Len(Commands), r \in Responses \cup {Canceled}}

ReqPacked ==
    /\ fnOut = NotRun
    /\ fnOut' = [run |-> TRUE,
                 val |-> IF fnIn.func = "Single"
                         THEN req_packed_command(task = "running", fnIn.received)
                         ELSE req_packed_commands(task = "running", fnIn.received)]
    /\ UNCHANGED <<fnIn, overflow_checks, rx, dropped, bootVars, pipeVars, obsVars>>

InitHandle ==
    /\ Fresh
    /\ boot = [pc |-> "running", future |-> None]
    /\ client = None
    /\ task \in TaskStates
    /\ connections = {}
    /\ slots = <<>>
    /\ retries = None
    /\ fnIn \in HandleInputs
    /\ fnOut = NotRun
    /\ overflow_checks = FALSE

NextHandle == ReqPacked

SpecHandle == InitHandle /\ [][NextHandle]_vars

---------------------------------------------------------------------------
(* The pipeline under fair scheduling: the executor polls the task again   *)
(* whenever it was woken, a pass of poll_flush runs to its end, a reply or *)
(* a timer that can arrive does arrive, and a refresh that can succeed     *)
(* does succeed.  Callers are free to send nothing more.                   *)

PollReady == Poll /\ ev'.out # "Pending"

RecoverInstalled == RecoverReady /\ state'.tag = "PollComplete"

Fairness ==
    /\ WF_vars(EnterPollFlush)
    /\ WF_vars(Dispatch)
    /\ WF_vars(EndPass)
    /\ SF_vars(PollReady)
    /\ SF_vars(RecoverInstalled)

(* A cluster of two masters, both connected, and a retry cap of one.       *)
InitFair ==
    /\ Init
    /\ retries = Some(1)
    /\ connections = Nodes

FairSpec == InitFair /\ [][Next]_vars /\ Fairness

(* The same pipeline whose handles may all be dropped.                     *)
NextClose ==
    \/ Next
    \/ CloseChannel

FairClose == InitFair /\ [][NextClose]_vars /\ Fairness

---------------------------------------------------------------------------
(* The pipeline whose callers may give up waiting.                         *)

(* A caller drops the future req_packed_command returned, and with it the  *)
(* oneshot Receiver, before a result has come.                             *)
DropReceiver ==
    /\ task = "running"
    /\ \E id \in (1..nextId) \ dropped :
          /\ replies[id] = <<>>
          /\ dropped' = dropped \cup {id}
    /\ UNCHANGED <<fnVars, overflow_checks, rx, bootVars, pipeVars, obsVars>>

NextDrop ==
    \/ Next
    \/ DropReceiver

SpecDrop == Init /\ [][NextDrop]_vars

---------------------------------------------------------------------------
(* A pipeline without a retry cap in the middle of its work: a cluster of  *)
(* two masters, both pooled, and one request whose sends have failed       *)
(* `retry` times with TRYAGAIN and whose next send is outstanding.         *)
InitRetried ==
    /\ NoCall
    /\ bootErr = None
    /\ rx = "open"
    /\ dropped = {}
    /\ boot = [pc |-> "running", future |-> None]
    /\ client = None
    /\ task = "running"
    /\ retries = None
    /\ connections = Nodes
    /\ slots = (8191 :> "n1") @@ (16383 :> "n2")
    /\ state = PollComplete
    /\ polling = FALSE
    /\ i = 0
    /\ error = None
    /\ nextId = 1
    /\ replies = [id \in 1..MaxRequests |-> <<>>]
    /\ ev = NoEv
    /\ disp = NoDisp
    /\ moved = {}
    /\ failures = 0
    /\ \E retry \in 0..MaxRetry, msg \in Messages, addr \in Nodes :
          /\ in_flight_requests =
                 <<[start_send(msg.cmd, msg.func, 1) EXCEPT
                       !.retry = retry,
                       !.future = [tag |-> "Future", addr |-> addr,
                                   cmd |-> msg.cmd, func |-> msg.func]]>>
          /\ sends = [id \in 1..MaxRequests |-> IF id = 1 THEN retry + 1 ELSE 0]

SpecRetried == InitRetried /\ [][Next]_vars

---------------------------------------------------------------------------
(* Properties of the pipeline, checked under Spec.                         *)

InFlightIds == {in_flight_requests[k].id : k \in 1..Len(in_flight_requests)}

(* C1: a reply channel receives at most one result; a request that was     *)
(* answered is no longer in flight, so every request in flight still holds *)
(* its sender and respond never finds it taken.                            *)
C1_AtMostOneResult ==
    /\ \A id \in 1..MaxRequests : Len(replies[id]) <= 1
    /\ \A k \in 1..Len(in_flight_requests) :
          /\ in_flight_requests[k].sender.some
          /\ replies[in_flight_requests[k].id] = <<>>
    /\ Cardinality(InFlightIds) = Len(in_flight_requests)
    /\ task # "panic: Result should only be sent once"

(* A request answered after a retry while another one is still in flight.  *)
C1_Witness ==
    \E id \in 1..MaxRequests :
        /\ Len(replies[id]) = 1
        /\ sends[id] >= 2
        /\ in_flight_requests # <<>>

(* C3: the future a request waits on is a send of its own command through  *)
(* its own send function, and the result handed to its reply channel is    *)
(* the outcome of that send: Single for req_packed_command, Multiple for   *)
(* req_packed_commands.                                                    *)
C3_OwnResult ==
    /\ \A k \in 1..Len(in_flight_requests) :
          LET request == in_flight_requests[k]
          IN request.future.tag = "Future" =>
                /\ request.future.cmd = request.info.cmd
                /\ request.future.func = request.info.func
    /\ ev.sent.some =>
          /\ ev.sent.val.to = ev.id
          /\ ev.sent.val.msg.tag = "Ok" =>
                /\ ev.sent.val.msg.of = ev.info.val.cmd
                /\ ev.sent.val.msg.shape = ev.info.val.func

(* A Multiple result delivered after the vector was reordered by a retry,  *)
(* with another request in flight.                                         *)
C3_Witness ==
    /\ ev.sent.some
    /\ ev.sent.val.msg.tag = "Ok"
    /\ ev.sent.val.msg.shape = "Multiple"
    /\ sends[ev.id] >= 2
    /\ in_flight_requests # <<>>

(* C4: with max_retries = Some(n) no request is sent more than n + 1       *)
(* times: a request in flight whose n + 1 sends are used up is waiting for *)
(* the answer of the last one, never for another send, and a request that  *)
(* left the in-flight set has its result delivered.                        *)
C4_AtMostCapPlusOneSends ==
    retries.some =>
        /\ \A id \in 1..MaxRequests : sends[id] <= retries.val + 1
        /\ \A k \in 1..Len(in_flight_requests) :
              LET request == in_flight_requests[k]
              IN /\ request.retry <= retries.val
                 /\ sends[request.id] = retries.val + 1
                        => request.future.tag = "Future"
        /\ \A id \in 1..nextId :
              task = "running" => (id \in InFlightIds \/ Len(replies[id]) = 1)

(* Cap 1: the second send fails with a non-routing error, which is         *)
(* delivered.                                                              *)
C4_Witness ==
    /\ retries = Some(1)
    /\ ev.out \in {"TRYAGAIN", "CLUSTERDOWN", "OTHER"}
    /\ ev.next = "Done"
    /\ sends[ev.id] = 2
    /\ replies[ev.id] = <<"Err">>

(* C5: a request is not dispatched for a slot for which a MOVED reply has  *)
(* arrived until a refresh started after that reply has installed its slot *)
(* map and pool.                                                           *)
C5_NoDispatchBeforeRefresh == ~disp.stale

(* The step of poll_flush in which a send future resolved to an error that *)
(* is none of MOVED, ASK, TRYAGAIN and CLUSTERDOWN.                        *)
PolledOther ==
    /\ polling /\ state.tag = "PollComplete"
    /\ i < Len(in_flight_requests)
    /\ in_flight_requests[i + 1].future.tag = "Future"
    /\ ev'.out = "OTHER"
    /\ ev'.id = in_flight_requests[i + 1].id
    /\ (sends' # sends \/ replies' # replies \/ in_flight_requests' # in_flight_requests)

C2_EveryRequestAnswered ==
    \A id \in 1..MaxRequests :
        (retries.some /\ nextId >= id) ~> (replies[id] # <<>> \/ task # "running")

(* C14: a pipeline in Recover returns to PollComplete: after a refresh     *)
(* attempt failed, a later attempt has nodes to query and, once they       *)
(* answer, installs a topology.                                            *)
C14_RecoverReturns ==
    (state.tag = "Recover") ~> (state.tag = "PollComplete")

(* A step of poll_flush in Recover that goes on in poll_flush without      *)
(* having installed the topology the MOVED replies ask for: the refresh    *)
(* failed.                                                                 *)
RefreshFailed ==
    /\ polling /\ state.tag = "Recover"
    /\ polling'
    /\ moved # {}
    /\ moved' = moved

(* C15: a step of poll_flush in Recover leaves the task running, answers   *)
(* no request and keeps the in-flight set as it is; after a failed refresh *)
(* the state is Recover with a new refresh of the pool then held.          *)
C15_RefreshFailureKeepsRequests ==
    [][/\ (polling /\ state.tag = "Recover") =>
              /\ task' = "running"
              /\ in_flight_requests' = in_flight_requests
              /\ replies' = replies
              /\ sends' = sends
       /\ RefreshFailed =>
              /\ state'.tag = "Recover"
              /\ state'.future = refresh_slots(connections)]_vars

(* A refresh has failed with a request waiting for the new topology.       *)
C15_Witness ==
    /\ task = "running"
    /\ state.tag = "Recover"
    /\ state.future.samples = {}
    /\ moved # {}
    /\ \E k \in 1..Len(in_flight_requests) :
          /\ in_flight_requests[k].future.tag = "None"
          /\ in_flight_requests[k].retry = 1

(* C16: while the state is Recover no request is dispatched or polled      *)
(* (no send, every request in flight stays as it is), and a message that   *)
(* start_send accepts meanwhile is appended with no future.                *)
C16_NoDispatchInRecover ==
    [][state.tag = "Recover" =>
          /\ sends' = sends
          /\ replies' = replies
          /\ Len(in_flight_requests') >= Len(in_flight_requests)
          /\ \A k \in 1..Len(in_flight_requests') :
                 IF k <= Len(in_flight_requests)
                 THEN in_flight_requests'[k] = in_flight_requests[k]
                 ELSE /\ in_flight_requests'[k].future = NoFuture
                      /\ in_flight_requests'[k].id = nextId'
                      /\ nextId' = nextId + 1]_vars

(* A message accepted during the refresh waits, never sent, behind the     *)
(* request that asked for the refresh.                                     *)
C16_Witness ==
    /\ state.tag = "Recover"
    /\ Len(in_flight_requests) = 2
    /\ sends[in_flight_requests[1].id] = 1
    /\ in_flight_requests[2].future = NoFuture
    /\ sends[in_flight_requests[2].id] = 0

(* C17: the topology a successful refresh installed has every master of   *)
(* its slot map in its connection pool.                                    *)
C17_MastersInPool ==
    (task = "running" /\ state.tag = "PollComplete") =>
        Range(slots) \subseteq connections

(* C18: when poll_flush is about to hand a request to try_request the pool *)
(* is not empty, and get_random_connection never panics for want of a      *)
(* target.                                                                 *)
C18_PoolNonEmptyAtDispatch ==
    /\ task # "panic: No targets to choose from"
    /\ (/\ task = "running" /\ polling /\ state.tag = "PollComplete"
        /\ i < Len(in_flight_requests)
        /\ in_flight_requests[i + 1].future.tag = "None") =>
            connections # {}

(* C19: the sends of a request follow its retry counter: retry + 1 while   *)
(* a send is outstanding, retry while it waits for a dispatch or a timer,  *)
(* so each further send was preceded by one increment; under Some(n) the   *)
(* counter never passes n, a failure at retry = n being the last, and no   *)
(* request is sent more than n + 1 times.                                  *)
C19_SendsFollowRetry ==
    /\ \A k \in 1..Len(in_flight_requests) :
          LET request == in_flight_requests[k]
          IN /\ sends[request.id] = IF request.future.tag = "Future"
                                    THEN request.retry + 1
                                    ELSE request.retry
             /\ request.max_retries.some =>
                    request.retry <= request.max_retries.val
    /\ retries.some =>
          \A id \in 1..MaxRequests : sends[id] <= retries.val + 1

(* Cap 1: one request on its second and last send after another error, one *)
(* waiting for the refresh its MOVED reply asked for.                      *)
C19_Witness ==
    /\ retries = Some(1)
    /\ \E k, j \in 1..Len(in_flight_requests) :
          /\ in_flight_requests[k].future.tag = "Future"
          /\ in_flight_requests[k].retry = 1
          /\ sends[in_flight_requests[k].id] = 2
          /\ in_flight_requests[j].future.tag = "None"
          /\ in_flight_requests[j].retry = 1
          /\ sends[in_flight_requests[j].id] = 1

(* The step of poll_flush that polls a request whose send is outstanding   *)
(* and that has retries left.                                              *)
PolledWithRetriesLeft ==
    /\ task = "running" /\ polling /\ state.tag = "PollComplete"
    /\ i < Len(in_flight_requests)
    /\ in_flight_requests[i + 1].future.tag = "Future"
    /\ ~retries_exhausted(in_flight_requests[i + 1])

(* poll_flush is about to dispatch again a request that has failed before. *)
WaitingDispatch ==
    /\ task = "running" /\ polling /\ state.tag = "PollComplete"
    /\ i < Len(in_flight_requests)
    /\ in_flight_requests[i + 1].future.tag = "None"
    /\ in_flight_requests[i + 1].retry >= 1

(* C20: a MOVED or ASK reply to a request with retries left clears its     *)
(* excludes, counts one retry and leaves it in place with no future and no *)
(* reply; the pass then ends in Recover; a refresh that succeeds goes on   *)
(* in PollComplete with the same requests; and the waiting request is then *)
(* sent again, to the master of its slot in the installed slot map when    *)
(* the pool holds it.                                                      *)
C20_MovedRefreshRedispatch ==
    [][/\ (PolledWithRetriesLeft /\ ev'.out \in {"MOVED", "ASK"}) =>
              LET request == in_flight_requests[i + 1]
                  after == in_flight_requests'[i + 1]
              IN /\ Len(in_flight_requests') = Len(in_flight_requests)
                 /\ after.id = request.id
                 /\ after.info.excludes = {}
                 /\ after.retry = request.retry + 1
                 /\ after.future = NoFuture
                 /\ after.sender = request.sender
                 /\ replies' = replies
                 /\ sends' = sends
                 /\ error'.some
                 /\ state'.tag = "PollComplete"
       /\ (polling /\ state.tag = "PollComplete" /\ error.some
           /\ i >= Len(in_flight_requests)) =>
              /\ state'.tag = "Recover"
              /\ in_flight_requests' = in_flight_requests
       /\ (state.tag = "Recover" /\ state'.tag = "PollComplete") =>
              /\ polling'
              /\ in_flight_requests' = in_flight_requests
       /\ WaitingDispatch =>
              LET request == in_flight_requests[i + 1]
                  after == in_flight_requests'[i + 1]
                  entry == slots_range_next(request.info.slot.val)
              IN /\ task' = "running"
                 /\ after.id = request.id
                 /\ after.future.tag = "Future"
                 /\ sends'[request.id] = sends[request.id] + 1
                 /\ (/\ request.info.slot.some
                     /\ request.info.excludes = {}
                     /\ entry.val \in connections) =>
                        after.future.addr = entry.val]_vars

(* C22: an error that is none of MOVED, ASK, TRYAGAIN and CLUSTERDOWN, on a *)
(* request with retries left whose excludes do not yet cover the pool,     *)
(* adds the endpoint tried to the excludes and sends the request again at  *)
(* once to a pool endpoint outside them; and no send of a request ever     *)
(* goes to an endpoint in its excludes.                                    *)
C22_ExcludeTriedEndpoint ==
    [][/\ (/\ PolledWithRetriesLeft
           /\ ev'.out = "OTHER"
           /\ Cardinality(in_flight_requests[i + 1].info.excludes
                              \cup {in_flight_requests[i + 1].future.addr})
                  < Cardinality(connections)) =>
              LET request == in_flight_requests[i + 1]
                  after == in_flight_requests'[Len(in_flight_requests')]
              IN /\ Len(in_flight_requests') = Len(in_flight_requests)
                 /\ after.id = request.id
                 /\ after.retry = request.retry + 1
                 /\ after.info.excludes =
                        request.info.excludes \cup {request.future.addr}
                 /\ after.future.tag = "Future"
                 /\ after.future.addr \in connections \ after.info.excludes
                 /\ sends' = [sends EXCEPT ![request.id] = @ + 1]
                 /\ replies' = replies
                 /\ error' = error
                 /\ i' = i
       /\ \A k \in 1..Len(in_flight_requests') :
              LET after == in_flight_requests'[k]
              IN after.future.tag = "Future" =>
                    after.future.addr \notin after.info.excludes]_vars

(* With two endpoints pooled, the one that failed is excluded and the      *)
(* request is out on the other.                                            *)
C22_Witness ==
    /\ ev.out = "OTHER"
    /\ ev.next = "TryNewConnection"
    /\ in_flight_requests # <<>>
    /\ LET request == in_flight_requests[Len(in_flight_requests)]
       IN /\ request.id = ev.id
          /\ request.future.tag = "Future"
          /\ Cardinality(request.info.excludes) = 1
          /\ request.info.excludes \subseteq connections
          /\ request.future.addr \in connections \ request.info.excludes

(* C23: an error ends a request for exhausted excludes only when every     *)
(* endpoint of the pool is among its excludes.                             *)
C23_ExhaustedOnlyWhenAllTried ==
    [][(/\ PolledWithRetriesLeft
        /\ ev'.out = "OTHER"
        /\ ev'.next = "Done") =>
           connections \subseteq
               in_flight_requests[i + 1].info.excludes
                   \cup {in_flight_requests[i + 1].future.addr}]_vars

(* C24: a send that fails when the request's retry count equals its cap    *)
(* has its error delivered and the request removed, whatever the error     *)
(* code: a MOVED or ASK reply then asks for no refresh, a TRYAGAIN or       *)
(* CLUSTERDOWN reply starts no timer, and nothing is sent again.           *)
C24_CapBeforeClassification ==
    [][(/\ task = "running" /\ polling /\ state.tag = "PollComplete"
        /\ i < Len(in_flight_requests)
        /\ in_flight_requests[i + 1].future.tag = "Future"
        /\ in_flight_requests[i + 1].max_retries.some
        /\ in_flight_requests[i + 1].retry
               = in_flight_requests[i + 1].max_retries.val
        /\ ev'.out \in ErrorCodes) =>
           LET request == in_flight_requests[i + 1]
           IN /\ ev'.next = "Done"
              /\ ev'.id = request.id
              /\ replies' = [replies EXCEPT ![request.id] = <<"Err">>]
              /\ Len(in_flight_requests') = Len(in_flight_requests) - 1
              /\ \A k \in 1..Len(in_flight_requests') :
                     /\ in_flight_requests'[k].id # request.id
                     /\ \E j \in 1..Len(in_flight_requests) :
                            in_flight_requests'[k] = in_flight_requests[j]
              /\ error' = error
              /\ state' = state
              /\ sends' = sends
              /\ i' = i]_vars

(* Cap 1: the second send is answered MOVED; the error is delivered and    *)
(* the pass has no refresh to start.                                       *)
C24_Witness ==
    /\ retries = Some(1)
    /\ ev.out = "MOVED"
    /\ ev.next = "Done"
    /\ sends[ev.id] = 2
    /\ replies[ev.id] = <<"Err">>
    /\ state.tag = "PollComplete"
    /\ error = None
    /\ moved = {}

(* C25: while the state stays PollComplete (a message accepted, a request  *)
(* dispatched, also through a connection opened to a master outside the    *)
(* pool, an outcome handled) the slot map and the pool do not change; the  *)
(* slot map changes only in the step that installs a successful refresh,   *)
(* together with the pool of that same refresh; otherwise the pool changes *)
(* only by moving into a refresh future, in Recover, where nothing is      *)
(* dispatched.                                                             *)
C25_TopologyChangesOnlyByInstall ==
    [][/\ (state.tag = "PollComplete" /\ state'.tag = "PollComplete") =>
              /\ slots' = slots
              /\ connections' = connections
       /\ (state.tag = "Recover" /\ state'.tag = "PollComplete") =>
              \E res \in RefreshResults(state.future) :
                  /\ res.tag = "Ok"
                  /\ slots' = res.slots
                  /\ connections' = res.connections
       /\ state'.tag = "Recover" =>
              /\ slots' = slots
              /\ connections' = {}
              /\ state.tag = "PollComplete" =>
                     state'.future.connections = connections
       /\ (\A k \in 1..Len(in_flight_requests') :
               in_flight_requests'[k].future.tag = "Future"
               /\ sends'[in_flight_requests'[k].id]
                      # sends[in_flight_requests'[k].id] =>
                   /\ state.tag = "PollComplete"
                   /\ slots' = slots
                   /\ connections' = connections)]_vars

(* A request was sent through a connection opened to a master that the     *)
(* pool does not hold, and the pool still does not hold it.                *)
C25_Witness ==
    /\ state.tag = "PollComplete"
    /\ disp.id # 0
    /\ disp.addr \notin connections
    /\ connections # {}
    /\ \E k \in 1..Len(in_flight_requests) :
          /\ in_flight_requests[k].id = disp.id
          /\ in_flight_requests[k].future.tag = "Future"
          /\ in_flight_requests[k].future.addr = disp.addr

(* The request at position k was handed to try_request in this step.       *)
SentNow(k) ==
    /\ in_flight_requests'[k].future.tag = "Future"
    /\ sends'[in_flight_requests'[k].id] # sends[in_flight_requests'[k].id]

C31_WaitingDoesNotBlock ==
    [][/\ (/\ PolledWithRetriesLeft
           /\ \/ ev'.out \in {"TRYAGAIN", "CLUSTERDOWN"}
              \/ ev'.out = "OTHER" /\ ev'.next = "TryNewConnection") =>
              /\ task' = "running"
              /\ state' = PollComplete
              /\ error' = error
              /\ replies' = replies
              /\ Len(in_flight_requests') = Len(in_flight_requests)
              /\ \A k \in 1..Len(in_flight_requests) :
                    k # i + 1 =>
                        \E j \in 1..Len(in_flight_requests') :
                            in_flight_requests'[j] = in_flight_requests[k]
              /\ ev'.out \in {"TRYAGAIN", "CLUSTERDOWN"} =>
                    /\ i' = i + 1
                    /\ in_flight_requests'[i + 1].future.tag = "Delay"
       /\ (/\ task = "running" /\ polling /\ state.tag = "PollComplete"
           /\ i < Len(in_flight_requests)
           /\ in_flight_requests[i + 1].future.tag = "Delay"
           /\ task' = "running"
           /\ ev'.out = "Pending") =>
              /\ in_flight_requests' = in_flight_requests
              /\ i' = i + 1
              /\ ev'.id = in_flight_requests[i + 1].id
              /\ state' = state
              /\ error' = error
              /\ replies' = replies
       /\ \A k \in 1..Len(in_flight_requests) :
              (/\ in_flight_requests[k].future.tag = "Delay"
               /\ ~(polling /\ state.tag = "PollComplete" /\ i + 1 = k)
               /\ task' = "running") =>
                  \E j \in 1..Len(in_flight_requests') :
                      in_flight_requests'[j] = in_flight_requests[k]]_vars

(* The first request waits for its timer, and the poll just made gave the  *)
(* second request its reply.                                               *)
C31_Witness ==
    /\ task = "running"
    /\ state.tag = "PollComplete"
    /\ \E k \in 1..Len(in_flight_requests) :
          /\ in_flight_requests[k].id = 1
          /\ in_flight_requests[k].future.tag = "Delay"
    /\ ev.id = 2
    /\ ev.out = "Ok"
    /\ ev.next = "Done"
    /\ Len(replies[2]) = 1

(* C32: dropping a Receiver changes nothing in the pipeline.  The request  *)
(* whose Receiver is gone stays in the vector until a poll gives it a      *)
(* terminal outcome; at that poll the result is handed to the Sender,      *)
(* nothing arrives on any reply channel, the task goes on, the request     *)
(* leaves the vector, every other request stays as it was, and state and   *)
(* error are untouched.                                                    *)
C32_DroppedReceiverIgnored ==
    [][/\ dropped' # dropped =>
              /\ UNCHANGED <<pipeVars, obsVars, rx>>
              /\ \A id \in dropped' \ dropped : replies[id] = <<>>
       /\ (/\ dropped' = dropped
           /\ task = "running" /\ polling /\ state.tag = "PollComplete"
           /\ i < Len(in_flight_requests)
           /\ in_flight_requests[i + 1].future.tag = "Future"
           /\ in_flight_requests[i + 1].id \in dropped) =>
              /\ task' = "running"
              /\ state' = state
              /\ replies' = replies
              /\ ev'.id = in_flight_requests[i + 1].id
              /\ IF ev'.next = "Done"
                 THEN /\ ev'.sent.some
                      /\ ev'.sent.val.to = ev'.id
                      /\ error' = error
                      /\ Len(in_flight_requests') = Len(in_flight_requests) - 1
                      /\ \A j \in 1..Len(in_flight_requests') :
                            in_flight_requests'[j].id # ev'.id
                      /\ \A k \in 1..Len(in_flight_requests) :
                            k # i + 1 =>
                                \E j \in 1..Len(in_flight_requests') :
                                    in_flight_requests'[j] = in_flight_requests[k]
                 ELSE /\ ev'.sent = None
                      /\ \E j \in 1..Len(in_flight_requests') :
                            in_flight_requests'[j].id = ev'.id
       /\ (task = "running" /\ task' = "running") =>
              \A k \in 1..Len(in_flight_requests) :
                  (/\ in_flight_requests[k].id \in dropped
                   /\ ~(polling /\ state.tag = "PollComplete" /\ i + 1 = k
                         /\ in_flight_requests[k].future.tag = "Future")) =>
                      \E j \in 1..Len(in_flight_requests') :
                          in_flight_requests'[j].id = in_flight_requests[k].id]_vars

(* A request whose Receiver was dropped was sent twice and has just ended: *)
(* its result went to the Sender, no reply channel holds it, the request   *)
(* has left the vector and the task runs on.                               *)
C32_Witness ==
    /\ task = "running"
    /\ state.tag = "PollComplete"
    /\ ev.id \in dropped
    /\ ev.next = "Done"
    /\ ev.sent.some
    /\ replies[ev.id] = <<>>
    /\ sends[ev.id] = 2
    /\ \A k \in 1..Len(in_flight_requests) : in_flight_requests[k].id # ev.id

(* C11: once every handle is dropped and the channel has ended, the task   *)
(* drives the accepted requests until each has its result and the          *)
(* in-flight set is empty, and then exits.                                 *)
C11_DrainsThenExits ==
    (rx = "ended") ~>
        (/\ task = "exited"
         /\ in_flight_requests = <<>>
         /\ \A id \in 1..nextId : Len(replies[id]) = 1)

---------------------------------------------------------------------------
(* Properties of build_slot_map, checked under SpecSlots.                  *)

(* The records partition [0, 16384).                                       *)
ExactPartition(sorted) ==
    /\ sorted # <<>>
    /\ sorted[1].start = 0
    /\ \A k \in 2..Len(sorted) : sorted[k].start = sorted[k - 1].end + 1
    /\ sorted[Len(sorted)].end = SLOT_SIZE - 1

(* C7: build_slot_map returns a slot map when the records, sorted by       *)
(* start, partition [0, 16384), and ResponseError for every other list.    *)
C7_OnlyExactPartitions ==
    fnOut.run =>
        IF ExactPartition(sort_by_start(fnIn))
        THEN fnOut.val.tag = "Ok"
        ELSE fnOut.val.tag = "Err" /\ fnOut.val.kind = "ResponseError"

(* C26: when build_slot_map returned a slot map, the lookup of every slot   *)
(* of [0, 16384) names the master of each record whose range holds the     *)
(* slot, and some record holds it.                                         *)
C26_LookupNamesRecordMaster ==
    (fnOut.run /\ fnOut.val.tag = "Ok") =>
        \A s \in 0..(SLOT_SIZE - 1) :
            /\ \E k \in 1..Len(fnIn) : fnIn[k].start <= s /\ s <= fnIn[k].end
            /\ \A k \in 1..Len(fnIn) :
                  (fnIn[k].start <= s /\ s <= fnIn[k].end) =>
                      range_next(fnOut.val.map, s) = Some(fnIn[k].master)

---------------------------------------------------------------------------
(* Properties of get_random_connection, checked under SpecRandom.          *)

---------------------------------------------------------------------------
(* Properties of the slots_future of refresh_slots, checked under          *)
(* SpecSamples.                                                            *)

(* What the k-th sample queried gives: its error, or the slot map built    *)
(* from its records.                                                       *)
SampleResult(k) ==
    LET got == fnIn.reply[fnIn.samples[k]]
    IN IF got.tag = "Ok" THEN build_slot_map(got.data) ELSE got

WellFormed == {k \in 1..Len(fnIn.samples) : SampleResult(k).tag = "Ok"}

FirstWellFormed == CHOOSE k \in WellFormed : \A j \in WellFormed : k <= j

(* C29 as stated: the refresh uses the slot map of the first sample whose   *)
(* reply is well formed, and fails with IoError "No connections to refresh *)
(* slots from" when every sample fails.                                    *)
C29_FirstWellFormedOrIoError ==
    fnOut.run =>
        IF WellFormed # {}
        THEN fnOut.val = SampleResult(FirstWellFormed)
        ELSE fnOut.val = Err("IoError", "No connections to refresh slots from")

(* C29, amended: the refresh uses the slot map of the first sample whose    *)
(* reply is well formed; when every sample fails it fails with the error   *)
(* of the last sample queried, and with IoError "No connections to refresh *)
(* slots from" only when there was no sample.                              *)
C29_FirstWellFormedOrLastError ==
    fnOut.run =>
        IF WellFormed # {}
        THEN fnOut.val = SampleResult(FirstWellFormed)
        ELSE IF fnIn.samples = <<>>
        THEN fnOut.val = Err("IoError", "No connections to refresh slots from")
        ELSE fnOut.val = SampleResult(Len(fnIn.samples))

(* Two samples failed, the first in transport, the second with records    *)
(* that build no slot map, and the refresh failed with that ResponseError. *)
C29_Witness ==
    /\ fnOut.run
    /\ Len(fnIn.samples) = 2
    /\ WellFormed = {}
    /\ SampleResult(1).kind = "IoError"
    /\ fnOut.val.tag = "Err"
    /\ fnOut.val.kind = "ResponseError"

---------------------------------------------------------------------------
(* Properties of the pool a refresh builds, checked under SpecPool.        *)

(* C30: the pool a refresh produces holds only masters of the new slot     *)
(* map; an entry is the previously pooled connection only if that          *)
(* connection answered the PING, and otherwise, the endpoint not pooled    *)
(* before or its PING failed, a connection newly opened and checked; a     *)
(* pooled endpoint that is no master of the new map is not in the pool.    *)
C30_PoolOfCheckedMasters ==
    fnOut.run =>
        /\ DOMAIN fnOut.val \subseteq Range(fnIn.slot_map)
        /\ \A addr \in DOMAIN fnOut.val :
              /\ fnOut.val[addr] \in {"pooled", "opened"}
              /\ fnOut.val[addr] = "pooled" =>
                     addr \in fnIn.old /\ addr \in fnIn.pings
              /\ fnOut.val[addr] = "opened" =>
                     /\ addr \notin fnIn.old \/ addr \notin fnIn.pings
                     /\ addr \in fnIn.reachable
        /\ \A addr \in fnIn.old \ Range(fnIn.slot_map) :
              addr \notin DOMAIN fnOut.val

(* Of three pooled endpoints one answered the PING and was kept, one did   *)
(* not and was opened anew, and the third, no master, was dropped.         *)
C30_Witness ==
    /\ fnOut.run
    /\ fnIn.old = Endpoints
    /\ \E a \in DOMAIN fnOut.val : fnOut.val[a] = "pooled"
    /\ \E a \in DOMAIN fnOut.val :
          fnOut.val[a] = "opened" /\ a \in fnIn.old \ fnIn.pings
    /\ fnIn.old \ DOMAIN fnOut.val # {}
    /\ fnIn.old \ Range(fnIn.slot_map) # {}

---------------------------------------------------------------------------
(* Properties of Client::clone, checked under SpecClone.                   *)

(* C33: the clone of a Client holds the initial endpoints and the retry    *)
(* cap of the original.                                                    *)
C33_ClonePreservesConfig ==
    [][(~fnOut.run /\ fnOut'.run) =>
           /\ client'.val.initial_nodes = fnOut'.val.initial_nodes
           /\ client'.val.retries = fnOut'.val.retries]_vars

---------------------------------------------------------------------------
(* Properties of slot_for_packed_command, checked under SpecHash.          *)

(* The hash tag of a key: the bytes between the first '{' and the first    *)
(* '}' after it.                                                           *)
FirstOpen(key) == CHOOSE o \in 1..Len(key) :
                      key[o] = 123 /\ \A j \in 1..(o - 1) : key[j] # 123
HasClose(key) ==
    /\ \E o \in 1..Len(key) : key[o] = 123
    /\ \E c \in (FirstOpen(key) + 1)..Len(key) : key[c] = 125
FirstClose(key) == CHOOSE c \in (FirstOpen(key) + 1)..Len(key) :
                       key[c] = 125
                       /\ \A j \in (FirstOpen(key) + 1)..(c - 1) : key[j] # 125
RoutingKey(key) ==
    IF HasClose(key) /\ FirstClose(key) > FirstOpen(key) + 1
    THEN SubSeq(key, FirstOpen(key) + 1, FirstClose(key) - 1)
    ELSE key

(* C8: None for fewer than two arguments or a second argument that is not  *)
(* a bulk string; otherwise Some(CRC16/XMODEM(routing key of the second    *)
(* argument) mod 16384), in 0..16383, whatever the command name and the    *)
(* later arguments; the slots asserted by tests::slot.                     *)
C8_SlotOfSecondArgument ==
    fnOut.run =>
        IF fnIn.args.some
        THEN LET args == fnIn.args.val
             IN IF Len(args) < 2 \/ args[2].t # "Data"
                THEN fnOut.val = None
                ELSE /\ fnOut.val =
                            Some(XMODEM_calculate(RoutingKey(args[2].bytes)) % 16384)
                     /\ fnOut.val.val \in 0..16383
                     /\ args[2].bytes = <<97>> => fnOut.val = Some(15495)
        ELSE fnOut.val = Some(fnIn.slot)

(* EXISTS a NX 7 hashes as the key a.                                      *)
C8_Witness ==
    /\ fnOut.run
    /\ fnIn.args.some
    /\ Len(fnIn.args.val) = 4
    /\ fnIn.args.val[1].bytes = Bytes_EXISTS
    /\ fnOut.val = Some(15495)

---------------------------------------------------------------------------
(* Properties of the bootstrap, checked under SpecBoot.                    *)

HasUnix(nodes) == \E k \in 1..Len(nodes) : nodes[k].kind = "Unix"

(* C10: the task is spawned and the handle returned only from a first      *)
(* refresh that succeeded on at least one opened connection to endpoints   *)
(* that are all TCP; a UNIX socket fails with InvalidClientConfig, no      *)
(* opened connection with IoError, a failed refresh with its error, and    *)
(* then no task is spawned.                                                *)
C10_BootstrapOutcomes ==
    [][/\ (boot'.pc = "running" /\ boot.pc # "running") =>
              /\ boot.pc = "refreshing"
              /\ ~HasUnix(fnIn)
              /\ boot.future.val.samples # {}
              /\ boot.future.val.samples \subseteq {fnIn[k].addr : k \in 1..Len(fnIn)}
              /\ task' = "running"
              /\ bootErr' = None
              /\ 16383 \in DOMAIN slots'
       /\ (boot'.pc = "failed" /\ boot.pc # "failed") =>
              /\ task' = "none"
              /\ bootErr'.some
              /\ boot.pc = "init" =>
                    HasUnix(fnIn) /\ bootErr'.val = "InvalidClientConfig"
              /\ boot.pc = "opened" => bootErr'.val = "IoError"
              /\ boot.pc = "refreshing" =>
                    \E res \in RefreshResults(boot.future.val) :
                        res.tag = "Err" /\ res.kind = bootErr'.val
       /\ HasUnix(fnIn) => boot'.pc \in {"init", "failed"}
       /\ boot'.pc = "refreshing" => boot'.future.val.samples # {}
       /\ task' = "running" <=> boot'.pc = "running"]_vars

(* Two endpoints given, the handle is live.                                *)
C10_Witness ==
    /\ boot.pc = "running"
    /\ task = "running"
    /\ Len(fnIn) = 2
    /\ fnIn[1] # fnIn[2]
    /\ bootErr = None

---------------------------------------------------------------------------
(* Properties of a configured Client, checked under SpecClient.            *)

(* The step of poll_flush in which the request polled is answered with an  *)
(* error.                                                                  *)
AnsweredErr ==
    /\ polling /\ state.tag = "PollComplete"
    /\ i < Len(in_flight_requests)
    /\ in_flight_requests[i + 1].future.tag = "Future"
    /\ replies[in_flight_requests[i + 1].id] = <<>>
    /\ replies'[in_flight_requests[i + 1].id] = <<"Err">>

---------------------------------------------------------------------------
(* Properties of the handle calls, checked under SpecHandle.               *)

(* C12: a call on a handle whose task is gone, or whose reply channel was  *)
(* dropped without a result, returns an error of io kind BrokenPipe; it    *)
(* does not panic.  Any other call returns what the Pipeline sent.         *)
C12_BrokenPipeOnDeadTask ==
    fnOut.run =>
        IF task # "running" \/ fnIn.received = Canceled
        THEN /\ fnOut.val.tag = "Err"
             /\ fnOut.val.kind = "IoError"
             /\ fnOut.val.io = "BrokenPipe"
        ELSE IF fnIn.received.tag = "Err"
        THEN fnOut.val = fnIn.received
        ELSE IF fnIn.received.shape = fnIn.func
        THEN fnOut.val = [tag |-> "Ok", value |-> fnIn.received.of]
        ELSE fnOut.val = Unreachable

(* req_packed_command on a live task whose reply channel was dropped.      *)
C12_Witness ==
    /\ fnOut.run
    /\ task = "running"
    /\ fnIn.func = "Single"
    /\ fnIn.received = Canceled
    /\ fnOut.val = IoError("BrokenPipe", "redis_cluster: Unable to receive command")

---------------------------------------------------------------------------
(* Properties of the backoff, checked under SpecRetried.                   *)

(* 2^clamp(retry, 7, 16) * 10 ms.                                          *)
Backoff(retry) ==
    IF retry <= 7 THEN 1280
    ELSE IF retry >= 16 THEN 655360
    ELSE (2 ^ retry) * 10

(* C21: a TRYAGAIN or CLUSTERDOWN reply to a request with retries left     *)
(* clears its excludes, counts one retry, asks for no refresh and leaves   *)
(* the request in place on a timer of 2^clamp(retry, 7, 16) * 10 ms, retry *)
(* taken after the increment: between 1280 and 655360 ms and no shorter    *)
(* than the delay of the retry before.  A request on a timer is sent again *)
(* only by the poll at which the timer has fired.                          *)
C21_BackoffThenRedispatch ==
    [][/\ (PolledWithRetriesLeft /\ ev'.out \in {"TRYAGAIN", "CLUSTERDOWN"}) =>
              LET request == in_flight_requests[i + 1]
                  after == in_flight_requests'[i + 1]
              IN /\ Len(in_flight_requests') = Len(in_flight_requests)
                 /\ after.id = request.id
                 /\ after.info.excludes = {}
                 /\ after.retry = request.retry + 1
                 /\ after.future.tag = "Delay"
                 /\ after.future.ms = Backoff(after.retry)
                 /\ after.future.ms >= 1280
                 /\ after.future.ms <= 655360
                 /\ after.future.ms >= Backoff(request.retry)
                 /\ error' = error
                 /\ state' = state
                 /\ sends' = sends
                 /\ replies' = replies
       /\ \A k \in 1..Len(in_flight_requests) :
              LET request == in_flight_requests[k]
              IN (/\ request.future.tag = "Delay"
                  /\ sends'[request.id] # sends[request.id]) =>
                        /\ k = i + 1
                        /\ ev'.out = "Fired"
                        /\ ev'.id = request.id
                        /\ sends'[request.id] = sends[request.id] + 1]_vars

(* A request that has failed 17 times waits the longest delay.             *)
C21_Witness ==
    \E k \in 1..Len(in_flight_requests) :
        /\ in_flight_requests[k].future.tag = "Delay"
        /\ in_flight_requests[k].retry = 17
        /\ in_flight_requests[k].future.ms = 655360
        /\ ev.out \in {"TRYAGAIN", "CLUSTERDOWN"}

=============================================================================
